---- MODULE Spec2Model ----
(***************************************************************************)
(* The blood-gas interpreter's server functions.                           *)
(*                                                                         *)
(* The asynchronous job workflow:                                          *)
(*   start-analysis / start-ocr  (submit: pending record + schedule)       *)
(*   process-analysis / process-ocr  (background worker: terminal record)  *)
(*   check-status  (poll)                                                  *)
(* over the two key-value stores 'analysisJobs' and 'ocrJobs'; the         *)
(* synchronous handlers /analyze, /interpret and /ocr; and the field by    *)
(* field post-processing of an OCR reply.                                  *)
(*                                                                         *)
(* The key-value store and the completion service are external: a store    *)
(* call either takes effect and returns, or throws without effect; a       *)
(* completion-service call answers (status, body), rejects, or never       *)
(* answers.  A JSON object is modelled by the set of its keys; a reply     *)
(* text by a sequence of tokens.                                           *)
(***************************************************************************)
EXTENDS Integers, Sequences, FiniteSets, TLC

\* Number of submit requests (and so of jobs) in a run of the whole workflow.
MaxJobs == 1
\* Number of submit requests in a run of the submit handlers alone.
MaxSubmits == 2
\* Number of job ids the stores can hold when check-status is run alone.
MaxStored == 2

Reqs == 1..MaxJobs
JobIds == 1..MaxJobs

\* Query-parameter values a poll can carry besides a job id:
\* NoId is a request without ?id=, EmptyId is ?id= with an empty value.
NoId == -1
EmptyId == 0

Kinds == {"analysis", "ocr"}

\* ------------------------------------------------------------------------
\* Required key sets, as the system prompts of the two workers state them.

AnalysisKeys ==
    {"keyFindings", "hhAnalysis", "stewartAnalysis", "additionalCalculations",
     "differentials"}

OcrKeys ==
    {"ph", "pco2", "po2", "hco3", "sodium", "potassium", "chloride", "albumin",
     "lactate", "glucose", "calcium", "hb"}

RequiredKeys(kind) == IF kind = "analysis" THEN AnalysisKeys ELSE OcrKeys

\* ------------------------------------------------------------------------
\* Request payloads (the JSON body of a submit), by the fields present.

AnalysisPayloads == { {"values", "ph", "pco2"}, {"values", "pco2"}, {} }
OcrPayloads == { {"image"}, {} }
Payloads(kind) == IF kind = "analysis" THEN AnalysisPayloads ELSE OcrPayloads

\* ------------------------------------------------------------------------
\* Reply texts of the completion service: sequences of tokens.  "{" "}" ","
\* are themselves; a key name stands for a  "key": value  pair; "x" is any
\* other text (prose, code-fence markers).

Min(S) == CHOOSE m \in S : \A n \in S : m <= n
Max(S) == CHOOSE m \in S : \A n \in S : m >= n

\* String.prototype.indexOf / lastIndexOf: 0-based, -1 when absent.
IndexOf(s, c) ==
    LET hits == {i \in 1..Len(s) : s[i] = c}
    IN  IF hits = {} THEN -1 ELSE Min(hits) - 1

LastIndexOf(s, c) ==
    LET hits == {i \in 1..Len(s) : s[i] = c}
    IN  IF hits = {} THEN -1 ELSE Max(hits) - 1

\* String.prototype.substring(a, b): arguments clamped to [0, length] and
\* swapped when a > b; the characters a .. b-1 (0-based).
Clamp(n, len) == IF n < 0 THEN 0 ELSE IF n > len THEN len ELSE n
Substring(s, a, b) ==
    LET ca == Clamp(a, Len(s))
        cb == Clamp(b, Len(s))
        lo == IF ca <= cb THEN ca ELSE cb
        hi == IF ca <= cb THEN cb ELSE ca
    IN  SubSeq(s, lo + 1, hi)

KeyTokens == AnalysisKeys \cup OcrKeys \cup {"compensationAnalysis", "be"}

\* JSON.parse on a token sequence:  { }  or  { pair , pair , ... }  parses to
\* the object with those keys; anything else throws a SyntaxError.
IsObjectText(s) ==
    /\ Len(s) >= 2
    /\ s[1] = "{"
    /\ s[Len(s)] = "}"
    /\ LET inner == SubSeq(s, 2, Len(s) - 1)
       IN  \/ inner = << >>
           \/ /\ Len(inner) % 2 = 1
              /\ \A i \in 1..Len(inner) :
                    IF i % 2 = 1 THEN inner[i] \in KeyTokens ELSE inner[i] = ","

ObjectKeys(s) == {s[i] : i \in 2..(Len(s) - 1)} \cap KeyTokens

\* A JSON object text with the given keys, in a fixed order.
RECURSIVE Pairs(_)
Pairs(keys) ==
    IF keys = {} THEN << >>
    ELSE LET k == CHOOSE k \in keys : TRUE
             rest == Pairs(keys \ {k})
         IN  IF rest = << >> THEN <<k>> ELSE <<k, ",">> \o rest

ObjectText(keys) == <<"{">> \o Pairs(keys) \o <<"}">>

ReplyTexts(kind) ==
    { << >>,                                          \* no text in the reply
      <<"x">>,                                        \* prose only
      <<"{", "x">>,                                   \* '{' without '}'
      <<"}", "x", "{">>,                              \* '}' before '{'
      ObjectText({}),                                 \* {}
      ObjectText({"keyFindings", "ph"}),              \* some keys only
      <<"x">> \o ObjectText(RequiredKeys(kind)) \o <<"x">>,  \* wrapped, all keys
      <<"{", "ph", ",", "}">>,                        \* trailing comma
      ObjectText(RequiredKeys(kind)) }

\* ------------------------------------------------------------------------
\* Bodies a completion-service error response can carry.
UpstreamBodies == {"", "Service Unavailable"}

\* ------------------------------------------------------------------------
\* State.

VARIABLES
    env,            \* process.env: whether GEMINI_API_KEY is set
    nextId,         \* source of fresh job ids (uuidv4)
    req,            \* the submit requests: position in the handler, response
    analysisJobs,   \* the store 'analysisJobs': job id -> record
    ocrJobs,        \* the store 'ocrJobs': job id -> record
    worker,         \* the background-function invocations, one slot per request
    recording,      \* whether check-status responses are kept in resp
    resp,           \* the last response of check-status, with its request
    lastSeen,       \* per job id, the status the last 200 poll returned
    firstPoll,      \* per request, the outcome of the first poll after its 202
    sync,           \* the invocation of a synchronous handler: request, call, response
    scan            \* the values of an OCR reply and the output built from them

vars == <<env, nextId, req, analysisJobs, ocrJobs, worker, recording, resp, lastSeen,
          firstPoll, sync, scan>>

\* The request slots and the job ids of the run.
Slots == DOMAIN req
Ids == DOMAIN lastSeen
PollIds == Ids \cup {NoId, EmptyId}

\* NetlifyKV store operations on a store held as a function key -> record.
Has(store, key) == key \in DOMAIN store
Set(store, key, rec) ==
    [k \in DOMAIN store \cup {key} |-> IF k = key THEN rec ELSE store[k]]

StoreOf(kind) == IF kind = "analysis" THEN analysisJobs ELSE ocrJobs
FunctionName(kind) == IF kind = "analysis" THEN "process-analysis" ELSE "process-ocr"
KindOf(fn) == IF fn = "process-analysis" THEN "analysis" ELSE "ocr"

\* uuidv4 with the bug of handing out the previous identifier again.
uuidReused == IF nextId > 1 THEN nextId - 1 ELSE nextId

\* uuid's v4(): a fresh identifier on every call.
uuidv4 == nextId

IdleReq == [pc |-> "idle", kind |-> "analysis", jobId |-> EmptyId, jobData |-> {},
            status |-> 0]
IdleWorker == [pc |-> "none", fn |-> "", jobId |-> EmptyId, jobData |-> {},
               invocations |-> 0, calls |-> 0, writes |-> 0,
               svc |-> "idle", error |-> "", extractedJson |-> {}]
NoResp == [handler |-> "", id |-> NoId, readOk |-> TRUE, code |-> 0,
           body |-> [error |-> ""]]

\* No synchronous handler invoked, no OCR reply being processed.
IdleSync == [pc |-> "idle"]
IdleScan == [pc |-> "idle"]

Init ==
    /\ env \in [GEMINI_API_KEY : BOOLEAN]
    /\ nextId = 1
    /\ req = [r \in Reqs |-> IdleReq]
    /\ analysisJobs = << >>
    /\ ocrJobs = << >>
    /\ worker = [r \in Reqs |-> IdleWorker]
    /\ recording = FALSE
    /\ resp = NoResp
    /\ lastSeen = [j \in JobIds |-> "none"]
    /\ firstPoll = [r \in Reqs |-> "none"]
    /\ sync = IdleSync
    /\ scan = IdleScan

\* ------------------------------------------------------------------------
\* start-analysis / start-ocr.

\* The record the submit handler stores for a new job.
PendingRecord(jobData) == [status |-> "pending", data |-> jobData]

\* The handler up to its first store call: the method check, req.json(),
\* uuidv4() and NetlifyKV.openStore().
SubmitReceive(r, kind, method, bodyOk, jobData, opens) ==
    /\ req[r].pc = "idle"
    /\ \A q \in Slots : q < r => req[q].pc # "idle"
    /\ IF method # "POST"
       THEN /\ req' = [req EXCEPT ![r] = [@ EXCEPT !.pc = "done", !.kind = kind,
                                                   !.status = 405]]
            /\ UNCHANGED nextId
       ELSE IF ~bodyOk
       THEN /\ req' = [req EXCEPT ![r] = [@ EXCEPT !.pc = "done", !.kind = kind,
                                                   !.status = 500]]
            /\ UNCHANGED nextId
       ELSE /\ nextId' = nextId + 1
            /\ req' = [req EXCEPT ![r] =
                          [@ EXCEPT !.pc = IF opens THEN "writing" ELSE "done",
                                    !.kind = kind,
                                    !.jobId = uuidv4,
                                    !.jobData = jobData,
                                    !.status = IF opens THEN 0 ELSE 500]]
    /\ UNCHANGED <<sync, scan, env, analysisJobs, ocrJobs, worker, recording, resp, lastSeen, firstPoll>>

\* SubmitSet with the bug of not writing the record.
SubmitSetUnwritten(r, ok) ==
    /\ req[r].pc = "writing"
    /\ req' = [req EXCEPT ![r].pc = "written"]
    /\ UNCHANGED <<sync, scan, env, nextId, analysisJobs, ocrJobs, worker, recording, resp,
                   lastSeen, firstPoll>>

\* await store.set(jobId, {status: 'pending', data: jobData}).
SubmitSet(r, ok) ==
    /\ req[r].pc = "writing"
    /\ IF ok
       THEN /\ req' = [req EXCEPT ![r].pc = "written"]
            /\ IF req[r].kind = "analysis"
               THEN /\ analysisJobs' = Set(analysisJobs, req[r].jobId,
                                           PendingRecord(req[r].jobData))
                    /\ UNCHANGED ocrJobs
               ELSE /\ ocrJobs' = Set(ocrJobs, req[r].jobId,
                                      PendingRecord(req[r].jobData))
                    /\ UNCHANGED analysisJobs
       ELSE /\ req' = [req EXCEPT ![r] = [@ EXCEPT !.pc = "done", !.status = 500]]
            /\ UNCHANGED <<analysisJobs, ocrJobs>>
    /\ UNCHANGED <<sync, scan, env, nextId, worker, recording, resp, lastSeen, firstPoll>>

\* SubmitSchedule with the bug of awaiting the background function: the
\* response is given when the invocation has ended.
SubmitScheduleAwaits(r, ok) ==
    /\ req[r].pc = "written"
    /\ IF worker[r].pc = "none"
       THEN /\ worker' = [worker EXCEPT ![r] =
                            [@ EXCEPT !.pc = "scheduled",
                                      !.fn = FunctionName(req[r].kind),
                                      !.jobId = req[r].jobId,
                                      !.jobData = req[r].jobData,
                                      !.invocations = @ + 1]]
            /\ UNCHANGED req
       ELSE /\ worker[r].pc \in {"done", "crashed"}
            /\ req' = [req EXCEPT ![r] = [@ EXCEPT !.pc = "done", !.status = 202]]
            /\ UNCHANGED worker
    /\ UNCHANGED <<sync, scan, env, nextId, analysisJobs, ocrJobs, recording, resp, lastSeen,
                   firstPoll>>

\* context.next(null, {functionName, payload: {jobId, jobData}}) and the
\* 202 response that follows it without a suspension point.
SubmitSchedule(r, ok) ==
    /\ req[r].pc = "written"
    /\ IF ok
       THEN /\ worker' = [worker EXCEPT ![r] =
                            [@ EXCEPT !.pc = "scheduled",
                                      !.fn = FunctionName(req[r].kind),
                                      !.jobId = req[r].jobId,
                                      !.jobData = req[r].jobData,
                                      !.invocations = @ + 1]]
            /\ req' = [req EXCEPT ![r] = [@ EXCEPT !.pc = "done", !.status = 202]]
       ELSE /\ req' = [req EXCEPT ![r] = [@ EXCEPT !.pc = "done", !.status = 500]]
            /\ UNCHANGED worker
    /\ UNCHANGED <<sync, scan, env, nextId, analysisJobs, ocrJobs, recording, resp, lastSeen,
                   firstPoll>>

\* ------------------------------------------------------------------------
\* process-analysis / process-ocr.

Threw(msg) == [threw |-> TRUE, message |-> msg, json |-> {}]
Returned(keys) == [threw |-> FALSE, message |-> "", json |-> keys]

\* From the reply text to the parsed object: the text must be non-empty,
\* the slice from the first '{' to the last '}' is given to JSON.parse.
Extract(responseText) ==
    IF responseText = << >> THEN Threw("No content returned from AI.")
    ELSE LET startIndex == IndexOf(responseText, "{")
             endIndex == LastIndexOf(responseText, "}")
         IN  IF startIndex = -1 \/ endIndex = -1 THEN Threw("AI response did not contain valid JSON.")
             ELSE LET candidate == Substring(responseText, startIndex, endIndex + 1)
                  IN  IF IsObjectText(candidate)
                      THEN Returned(ObjectKeys(candidate))
                      ELSE Threw("Unexpected token in JSON")

\* What the completion-service call can settle to.
FetchResults(kind) ==
    {[type |-> "reject", body |-> "", text |-> << >>]}
    \cup {[type |-> "status", body |-> b, text |-> << >>] : b \in UpstreamBodies}
    \cup {[type |-> "badbody", body |-> "", text |-> << >>]}
    \cup {[type |-> "ok", body |-> "", text |-> t] : t \in ReplyTexts(kind)}

\* The statements after `await fetch(...)` up to the first store call.
AfterFetch(result) ==
    CASE result.type = "reject" -> Threw("fetch failed")
      [] result.type = "status" -> Threw(result.body)
      [] result.type = "badbody" -> Threw("Unexpected token in JSON")
      [] OTHER -> Extract(result.text)

\* The statements of the try block before `await fetch(...)`: the API key
\* check and the prompt, which for process-analysis walks Object.entries(values).
BeforeFetch(fn, jobData) ==
    IF ~env.GEMINI_API_KEY THEN Threw("API key not configured.")
    ELSE IF fn = "process-analysis" /\ "values" \notin jobData THEN Threw("Cannot convert undefined or null to object")
    ELSE Returned({})

CompleteRecord(extractedJson) == [status |-> "complete", data |-> extractedJson]
FailedRecord(message) == [status |-> "failed", error |-> message]

\* WorkerSet with the bug of writing under the key after its own jobId.
WorkerSetOtherKey(r, rec) ==
    IF worker[r].fn = "process-analysis"
    THEN /\ analysisJobs' = Set(analysisJobs, worker[r].jobId + 1, rec)
         /\ UNCHANGED ocrJobs
    ELSE /\ ocrJobs' = Set(ocrJobs, worker[r].jobId + 1, rec)
         /\ UNCHANGED analysisJobs

\* store.set of the worker on its own store.
WorkerSet(r, rec) ==
    IF worker[r].fn = "process-analysis"
    THEN /\ analysisJobs' = Set(analysisJobs, worker[r].jobId, rec)
         /\ UNCHANGED ocrJobs
    ELSE /\ ocrJobs' = Set(ocrJobs, worker[r].jobId, rec)
         /\ UNCHANGED analysisJobs

\* The invocation starts: JSON.parse(event.body) and openStore, both outside
\* the try block, then the try block up to `await fetch(...)`.  `answers`
\* is whether the completion service will ever settle the call.
WorkerStart(r, bodyOk, opens, answers) ==
    /\ worker[r].pc = "scheduled"
    /\ IF ~bodyOk \/ ~opens
       THEN worker' = [worker EXCEPT ![r].pc = "crashed"]
       ELSE LET pre == BeforeFetch(worker[r].fn, worker[r].jobData)
            IN  IF pre.threw
                THEN worker' = [worker EXCEPT ![r] =
                                  [@ EXCEPT !.pc = "catch", !.error = pre.message]]
                ELSE worker' = [worker EXCEPT ![r] =
                                  [@ EXCEPT !.pc = "fetching",
                                            !.calls = @ + 1,
                                            !.svc = IF answers THEN "answering"
                                                    ELSE "silent"]]
    /\ UNCHANGED <<sync, scan, env, nextId, req, analysisJobs, ocrJobs, recording, resp, lastSeen,
                   firstPoll>>

\* WorkerFetched with the bug of calling the completion service again
\* when the call failed.
WorkerFetchedRetries(r, result) ==
    /\ worker[r].pc = "fetching"
    /\ worker[r].svc = "answering"
    /\ LET out == AfterFetch(result)
       IN  IF out.threw
           THEN /\ worker[r].calls < 3
                /\ worker' = [worker EXCEPT ![r].calls = @ + 1]
           ELSE worker' = [worker EXCEPT ![r] =
                             [@ EXCEPT !.pc = "complete", !.svc = "idle",
                                       !.extractedJson = out.json]]
    /\ UNCHANGED <<sync, scan, env, nextId, req, analysisJobs, ocrJobs, recording, resp, lastSeen,
                   firstPoll>>

\* The completion-service call settles; the reply is checked and parsed.
WorkerFetched(r, result) ==
    /\ worker[r].pc = "fetching"
    /\ worker[r].svc = "answering"
    /\ LET out == AfterFetch(result)
       IN  IF out.threw
           THEN worker' = [worker EXCEPT ![r] =
                             [@ EXCEPT !.pc = "catch", !.svc = "idle",
                                       !.error = out.message]]
           ELSE worker' = [worker EXCEPT ![r] =
                             [@ EXCEPT !.pc = "complete", !.svc = "idle",
                                       !.extractedJson = out.json]]
    /\ UNCHANGED <<sync, scan, env, nextId, req, analysisJobs, ocrJobs, recording, resp, lastSeen,
                   firstPoll>>

\* WorkerSetComplete with the bug of throwing after the write, into the
\* catch block.
WorkerSetCompleteThenThrows(r, ok) ==
    /\ worker[r].pc = "complete"
    /\ WorkerSet(r, CompleteRecord(worker[r].extractedJson))
    /\ worker' = [worker EXCEPT ![r] =
                    [@ EXCEPT !.pc = "catch", !.writes = @ + 1, !.error = "Unexpected token in JSON",
                              !.extractedJson = {}]]
    /\ UNCHANGED <<sync, scan, env, nextId, req, recording, resp, lastSeen, firstPoll>>

\* await store.set(jobId, {status: 'complete', data: extractedJson}).
WorkerSetComplete(r, ok) ==
    /\ worker[r].pc = "complete"
    /\ IF ok
       THEN /\ WorkerSet(r, CompleteRecord(worker[r].extractedJson))
            /\ worker' = [worker EXCEPT ![r] =
                            [@ EXCEPT !.pc = "done", !.writes = @ + 1,
                                      !.extractedJson = {}]]
       ELSE /\ worker' = [worker EXCEPT ![r] =
                            [@ EXCEPT !.pc = "catch", !.error = "store write failed",
                                      !.extractedJson = {}]]
            /\ UNCHANGED <<analysisJobs, ocrJobs>>
    /\ UNCHANGED <<sync, scan, env, nextId, req, recording, resp, lastSeen, firstPoll>>

\* catch (error): await store.set(jobId, {status: 'failed', error: error.message}).
WorkerCatch(r, ok) ==
    /\ worker[r].pc = "catch"
    /\ IF ok
       THEN /\ WorkerSet(r, FailedRecord(worker[r].error))
            /\ worker' = [worker EXCEPT ![r] =
                            [@ EXCEPT !.pc = "done", !.writes = @ + 1, !.error = ""]]
       ELSE /\ worker' = [worker EXCEPT ![r] = [@ EXCEPT !.pc = "crashed", !.error = ""]]
            /\ UNCHANGED <<analysisJobs, ocrJobs>>
    /\ UNCHANGED <<sync, scan, env, nextId, req, recording, resp, lastSeen, firstPoll>>

\* ------------------------------------------------------------------------
\* check-status.

ErrorBody(msg) == [error |-> msg]

\* CheckStatusResponse with the bug of not checking that an id was given.
CheckStatusUncheckedId(id, readOk) ==
    IF ~readOk THEN [code |-> 500, body |-> ErrorBody("Failed to check job status.")]
    ELSE IF Has(analysisJobs, id) THEN [code |-> 200, body |-> analysisJobs[id]]
    ELSE IF Has(ocrJobs, id) THEN [code |-> 200, body |-> ocrJobs[id]]
    ELSE [code |-> 404, body |-> ErrorBody("Job not found.")]

\* CheckStatusResponse with the bug of not looking in 'ocrJobs'.
CheckStatusOneStore(id, readOk) ==
    IF id \in {NoId, EmptyId} THEN [code |-> 400, body |-> [error |-> "Job ID is required."]]
    ELSE IF ~readOk THEN [code |-> 500, body |-> [error |-> "Failed to check job status."]]
    ELSE IF Has(analysisJobs, id) THEN [code |-> 200, body |-> analysisJobs[id]]
    ELSE [code |-> 404, body |-> [error |-> "Job not found."]]

\* The response for ?id=<id>, reading the two stores in turn.
CheckStatusResponse(id, readOk) ==
    IF id \in {NoId, EmptyId} THEN [code |-> 400, body |-> ErrorBody("Job ID is required.")]
    ELSE IF ~readOk THEN [code |-> 500, body |-> ErrorBody("Failed to check job status.")]
    ELSE IF Has(analysisJobs, id) THEN [code |-> 200, body |-> analysisJobs[id]]
    ELSE IF Has(ocrJobs, id) THEN [code |-> 200, body |-> ocrJobs[id]]
    ELSE [code |-> 404, body |-> ErrorBody("Job not found.")]

\* The response of the revision that reads 'analysisJobs' only.
CheckStatusSingleResponse(id, readOk) ==
    IF id \in {NoId, EmptyId} THEN [code |-> 400, body |-> ErrorBody("Job ID is required.")]
    ELSE IF ~readOk THEN [code |-> 500, body |-> ErrorBody("Failed to check job status.")]
    ELSE IF Has(analysisJobs, id) THEN [code |-> 200, body |-> analysisJobs[id]]
    ELSE [code |-> 404, body |-> ErrorBody("Job not found.")]

\* What a client that polls job `id` records of a response.
Observe(r, id, out) ==
    IF out.code = 200 THEN out.body.status
    ELSE IF out.code = 404 THEN "notfound"
    ELSE "error"

Polled(handler, id, readOk, out) ==
    /\ resp' = IF recording
                THEN [handler |-> handler, id |-> id, readOk |-> readOk,
                      code |-> out.code, body |-> out.body]
                ELSE resp
    /\ lastSeen' = IF out.code = 200
                   THEN [lastSeen EXCEPT ![id] = out.body.status]
                   ELSE lastSeen
    /\ firstPoll' = [r \in Slots |->
                       IF /\ req[r].status = 202
                          /\ req[r].jobId = id
                          /\ firstPoll[r] = "none"
                       THEN Observe(r, id, out)
                       ELSE firstPoll[r]]
    /\ UNCHANGED <<sync, scan, env, nextId, req, analysisJobs, ocrJobs, worker, recording>>

CheckStatus(id, readOk) ==
    Polled("check-status", id, readOk, CheckStatusResponse(id, readOk))

CheckStatusSingle(id, readOk) ==
    Polled("check-status-single", id, readOk, CheckStatusSingleResponse(id, readOk))

\* ------------------------------------------------------------------------

Methods == {"POST", "GET"}

Next ==
    \/ \E r \in Slots, kind \in Kinds, method \in Methods, bodyOk \in BOOLEAN,
          opens \in BOOLEAN :
          \E jobData \in Payloads(kind) :
             SubmitReceive(r, kind, method, bodyOk, jobData, opens)
    \/ \E r \in Slots, ok \in BOOLEAN : SubmitSet(r, ok)
    \/ \E r \in Slots, ok \in BOOLEAN : SubmitSchedule(r, ok)
    \/ \E r \in Slots, bodyOk \in BOOLEAN, opens \in BOOLEAN, answers \in BOOLEAN :
          WorkerStart(r, bodyOk, opens, answers)
    \/ \E r \in Slots :
          \E result \in FetchResults(KindOf(worker[r].fn)) :
             WorkerFetched(r, result)
    \/ \E r \in Slots, ok \in BOOLEAN : WorkerSetComplete(r, ok)
    \/ \E r \in Slots, ok \in BOOLEAN : WorkerCatch(r, ok)
    \/ \E id \in PollIds, readOk \in BOOLEAN : CheckStatus(id, readOk)

Spec == Init /\ [][Next]_vars

\* ------------------------------------------------------------------------
\* The submit handlers on their own: concurrent requests, no worker started.

SubmitInit ==
    /\ env \in [GEMINI_API_KEY : BOOLEAN]
    /\ nextId = 1
    /\ req = [r \in 1..MaxSubmits |-> IdleReq]
    /\ analysisJobs = << >>
    /\ ocrJobs = << >>
    /\ worker = [r \in 1..MaxSubmits |-> IdleWorker]
    /\ recording = FALSE
    /\ resp = NoResp
    /\ lastSeen = [j \in 1..MaxSubmits |-> "none"]
    /\ firstPoll = [r \in 1..MaxSubmits |-> "none"]
    /\ sync = IdleSync
    /\ scan = IdleScan

SubmitNext ==
    \/ \E r \in Slots, kind \in Kinds, method \in Methods, bodyOk \in BOOLEAN,
          opens \in BOOLEAN :
          \E jobData \in Payloads(kind) :
             SubmitReceive(r, kind, method, bodyOk, jobData, opens)
    \/ \E r \in Slots, ok \in BOOLEAN : SubmitSet(r, ok)
    \/ \E r \in Slots, ok \in BOOLEAN : SubmitSchedule(r, ok)

SubmitSpec == SubmitInit /\ [][SubmitNext]_vars

\* ------------------------------------------------------------------------
\* check-status on its own: the stores hold what the workflow leaves in
\* them, the responses are kept in resp.

SampleJson(kind) == { {}, {"keyFindings", "ph"}, RequiredKeys(kind) }
SampleErrors == {"", "API key not configured.", "AI response did not contain valid JSON."}

Records(kind) ==
    {PendingRecord(d) : d \in Payloads(kind)}
    \cup {CompleteRecord(k) : k \in SampleJson(kind)}
    \cup {FailedRecord(m) : m \in SampleErrors}

PollInit ==
    /\ env \in [GEMINI_API_KEY : {TRUE}]
    /\ nextId = MaxStored + 1
    /\ req = [r \in Reqs |-> IdleReq]
    /\ \E A \in SUBSET (1..MaxStored) : \E O \in SUBSET ((1..MaxStored) \ A) :
          /\ analysisJobs \in [A -> Records("analysis")]
          /\ ocrJobs \in [O -> Records("ocr")]
    /\ worker = [r \in Reqs |-> IdleWorker]
    /\ recording = TRUE
    /\ resp = NoResp
    /\ lastSeen = [j \in 1..MaxStored |-> "none"]
    /\ firstPoll = [r \in Reqs |-> "none"]
    /\ sync = IdleSync
    /\ scan = IdleScan

PollNext ==
    \/ \E id \in PollIds, readOk \in BOOLEAN : CheckStatus(id, readOk)
    \/ \E id \in PollIds, readOk \in BOOLEAN : CheckStatusSingle(id, readOk)

PollSpec == PollInit /\ [][PollNext]_vars

\* ------------------------------------------------------------------------
\* The synchronous handlers: /analyze (analyze.js, part_006), /interpret,
\* /ocr (ocr.js, part_011).  One invocation at a time: the request is
\* received, at most one completion-service call is made, the response
\* is returned.

SyncHandlers == {"analyze.js", "part_006", "interpret", "ocr.js", "part_011"}
OcrHandlers == {"ocr.js", "part_011"}

\* The keys the synchronous handlers fill in: /analyze adds
\* compensationAnalysis, /ocr adds be.
AnalyzeKeys == AnalysisKeys \cup {"compensationAnalysis"}
ExtractKeys == OcrKeys \cup {"be"}
HandlerKeys(h) == IF h \in OcrHandlers THEN ExtractKeys ELSE AnalyzeKeys

\* What a field of `values` can hold in the request body: nothing, a
\* number, a string such as "7.40", or an OCR entry {value: null, error}.
FieldShapes == {"absent", "number", "string", "entry"}


Requests(h) ==
    IF h \in OcrHandlers THEN [method : Methods, bodyOk : BOOLEAN, image : BOOLEAN]
    ELSE [method : Methods, bodyOk : BOOLEAN, values : BOOLEAN,
          ph : IF h = "interpret" THEN {"number"} ELSE FieldShapes,
          pco2 : IF h = "interpret" THEN {"number"} ELSE FieldShapes]

\* values?.ph and values?.pco2 of the parsed body.
FieldOf(request, f) ==
    IF ~request.values THEN "absent" ELSE IF f = "ph" THEN request.ph ELSE request.pco2

\* JSON values by their type; an object also by its keys.  "text" is a
\* body that is not JSON at all.
JsonObject(keys) == [type |-> "object", keys |-> keys]
JsonOther(type) == [type |-> type, keys |-> {}]
ErrorJson(msg) == [type |-> "object", keys |-> {"error"}, error |-> msg]
ErrorDetailsJson(msg) == [type |-> "object", keys |-> {"error", "details"}, error |-> msg]

\* Scalar and array literals in a reply text.
Literals == {"7", "str", "null", "[]"}
LiteralType(t) ==
    CASE t = "7" -> "number"
      [] t = "str" -> "string"
      [] t = "null" -> "null"
      [] OTHER -> "array"

\* JSON.parse of a whole text: an object text, or a single literal.
JsonParse(s) ==
    IF IsObjectText(s) THEN [ok |-> TRUE, json |-> JsonObject(ObjectKeys(s))]
    ELSE IF Len(s) = 1 /\ s[1] \in Literals
         THEN [ok |-> TRUE, json |-> JsonOther(LiteralType(s[1]))]
    ELSE [ok |-> FALSE, json |-> JsonOther("text")]

\* The code-fence markers are removed from the text.
Fence == "fence"
StripFences(s) == SelectSeq(s, LAMBDA t : t # Fence)

\* Keep the text from the first '{' to the last '}' when both are there
\* in that order.
SliceBraces(s) ==
    LET firstBrace == IndexOf(s, "{")
        lastBrace == LastIndexOf(s, "}")
    IN  IF firstBrace # -1 /\ lastBrace # -1 /\ lastBrace > firstBrace
        THEN Substring(s, firstBrace, lastBrace + 1)
        ELSE s

\* Reply texts of the completion service for a synchronous handler.
SyncReplyTexts(h) ==
    { << >>,                                              \* no text
      <<"x">>,                                            \* prose only
      <<"}", "x", "{">>,                                  \* '}' before '{'
      <<"7">>, <<"str">>, <<"null">>, <<"[]">>,         \* JSON, not an object
      ObjectText({}),                                     \* {}
      ObjectText({"keyFindings", "ph"}),                  \* some keys only
      <<"{", "ph", ",", "}">>,                            \* trailing comma
      <<Fence>> \o ObjectText(HandlerKeys(h)) \o <<Fence>>,      \* fenced, all keys
      <<"x">> \o ObjectText(HandlerKeys(h)) \o <<"x">>,          \* in prose, all keys
      ObjectText(HandlerKeys(h)) }

\* Statuses of a completion-service error response.
UpstreamStatuses == {429, 500, 503}

SyncResults(h) ==
    {[type |-> "reject", status |-> 0, body |-> "", text |-> << >>]}
    \cup {[type |-> "status", status |-> s, body |-> b, text |-> << >>] :
             s \in UpstreamStatuses, b \in UpstreamBodies}
    \cup {[type |-> "badbody", status |-> 200, body |-> "", text |-> << >>]}
    \cup {[type |-> "ok", status |-> 200, body |-> "", text |-> t] :
             t \in SyncReplyTexts(h)}

\* What the handler does with a request before any call: it returns a
\* response, or goes on to call the completion service.
Respond(status, body) == [returns |-> TRUE, status |-> status, body |-> body]
Fetch == [returns |-> FALSE, status |-> 0, body |-> JsonOther("null")]


\* analyze.js, exports.handler, up to `await fetch(...)`.
AnalyzeJsReceive(request) ==
    IF request.method # "POST" THEN Respond(405, ErrorJson("Method not allowed"))
    ELSE IF ~env.GEMINI_API_KEY THEN
            Respond(500, ErrorJson("Configuration error. Please contact support."))
    ELSE IF ~request.bodyOk THEN
            Respond(500,
                    ErrorDetailsJson("An error occurred during analysis. Please try again."))
    ELSE IF \/ ~request.values
            \/ FieldOf(request, "ph") # "number"       \* typeof ... !== 'number'
            \/ FieldOf(request, "pco2") # "number"
         THEN Respond(400, ErrorJson("Invalid input. pH and pCO2 are required."))
    ELSE Fetch

\* part_006, handler, up to `await fetch(...)`.
Part006Receive(request) ==
    IF request.method # "POST" THEN Respond(405, ErrorJson("Method not allowed"))
    ELSE IF ~request.bodyOk THEN Respond(500, ErrorDetailsJson("Internal server error"))
    ELSE IF FieldOf(request, "ph") = "absent" \/ FieldOf(request, "pco2") = "absent"
         THEN Respond(400, ErrorJson("Missing required values (pH and pCO2 required)."))
    ELSE IF ~env.GEMINI_API_KEY THEN Respond(500, ErrorJson("API key not configured."))
    ELSE Fetch

\* interpret, default handler, up to `await fetch(...)`.
InterpretReceive(request) ==
    IF request.method # "POST" THEN Respond(405, ErrorJson("Method Not Allowed"))
    ELSE IF ~env.GEMINI_API_KEY THEN
            Respond(500, ErrorJson("API key is not configured on the server."))
    ELSE IF ~request.bodyOk THEN Respond(500, ErrorJson("Unexpected token in JSON"))
    ELSE IF ~request.values THEN Respond(500, ErrorJson("Cannot convert undefined or null to object"))
    ELSE Fetch

\* ocr.js, exports.handler, up to `await fetch(...)`.
OcrJsReceive(request) ==
    IF request.method # "POST" THEN Respond(405, ErrorJson("Method Not Allowed"))
    ELSE IF ~env.GEMINI_API_KEY THEN Respond(500, ErrorJson("API key not configured."))
    ELSE IF ~request.bodyOk THEN
            Respond(500, ErrorJson("An unexpected error occurred during OCR processing."))
    ELSE IF ~request.image THEN Respond(400, ErrorJson("Image data is required."))
    ELSE Fetch

\* part_011, handler, up to `await fetch(...)`.
Part011Receive(request) ==
    IF request.method # "POST" THEN Respond(405, ErrorJson("Method not allowed"))
    ELSE IF ~request.bodyOk THEN Respond(500, ErrorDetailsJson("Internal server error"))
    ELSE IF ~request.image THEN Respond(400, ErrorJson("No image provided."))
    ELSE IF ~env.GEMINI_API_KEY THEN Respond(500, ErrorJson("API key not configured."))
    ELSE Fetch

Receive(h, request) ==
    CASE h = "analyze.js" -> AnalyzeJsReceive(request)
      [] h = "part_006" -> Part006Receive(request)
      [] h = "interpret" -> InterpretReceive(request)
      [] h = "ocr.js" -> OcrJsReceive(request)
      [] OTHER -> Part011Receive(request)

\* analyze.js after the call settled.  `strict` is whether the build runs
\* the file in strict mode, where assigning a property on a number or a
\* string throws instead of being ignored.
AnalyzeJsSettled(result, strict) ==
    CASE result.type \in {"reject", "badbody"} ->
            Respond(500,
                    ErrorDetailsJson("An error occurred during analysis. Please try again."))
      [] result.type = "status" ->
            IF result.status = 429 THEN
                    Respond(429,
                            ErrorJson("Rate limit reached. Please wait a moment and try again."))
            ELSE
                    Respond(502,
                            ErrorJson("Analysis service temporarily unavailable. Please try again."))
      [] OTHER ->
            IF result.text = << >> THEN
                    Respond(502, ErrorJson("No analysis generated. Please try again."))
            ELSE LET first == JsonParse(result.text)
                     second == JsonParse(SliceBraces(StripFences(result.text)))
                 IN  IF ~first.ok /\ ~second.ok
                     THEN Respond(200, JsonObject(AnalyzeKeys))
                     ELSE LET extractedJson == IF first.ok THEN first.json
                                               ELSE second.json
                          IN  CASE extractedJson.type = "object" ->
                                      Respond(200, JsonObject(extractedJson.keys
                                                               \cup AnalyzeKeys))
                                [] extractedJson.type = "array" ->
                                      Respond(200, extractedJson)
                                [] extractedJson.type = "null" ->
                                      Respond(500,
                                              ErrorDetailsJson("An error occurred during analysis. Please try again."))
                                [] OTHER ->
                                      IF strict
                                      THEN
                                              Respond(500,
                                                      ErrorDetailsJson("An error occurred during analysis. Please try again."))
                                      ELSE Respond(200, extractedJson)

\* part_006 after the call settled (an ES module: strict mode).
Part006Settled(result) ==
    CASE result.type \in {"reject", "badbody"} ->
            Respond(500, ErrorDetailsJson("Internal server error"))
      [] result.type = "status" -> Respond(result.status, ErrorJson("Gemini API error: "))
      [] OTHER ->
            IF result.text = << >> THEN Respond(500, ErrorJson("No text output from model."))
            ELSE LET first == JsonParse(result.text)
                     second == JsonParse(StripFences(result.text))
                 IN  IF ~first.ok /\ ~second.ok
                     THEN Respond(500, ErrorDetailsJson("Internal server error"))
                     ELSE LET parsed == IF first.ok THEN first.json ELSE second.json
                          IN  CASE parsed.type = "object" ->
                                      Respond(200, JsonObject(parsed.keys \cup AnalyzeKeys))
                                [] parsed.type = "array" -> Respond(200, parsed)
                                [] OTHER ->
                                        Respond(500, ErrorDetailsJson("Internal server error"))

\* interpret after the call settled: the slice of the reply is the body.
InterpretSettled(result) ==
    CASE result.type = "reject" -> Respond(500, ErrorJson("fetch failed"))
      [] result.type = "badbody" -> Respond(500, ErrorJson("Unexpected token in JSON"))
      [] result.type = "status" -> Respond(result.status, ErrorJson("Error from Gemini API: "))
      [] OTHER ->
            IF result.text = << >> THEN
                    Respond(500, ErrorJson("No valid content was returned from the AI model."))
            ELSE LET startIndex == IndexOf(result.text, "{")
                     endIndex == LastIndexOf(result.text, "}")
                 IN  IF startIndex = -1 \/ endIndex = -1
                     THEN
                             Respond(500,
                                     ErrorJson("AI response did not contain a valid JSON object."))
                     ELSE Respond(200,
                            JsonParse(Substring(result.text, startIndex,
                                                endIndex + 1)).json)

\* ocr.js, exports.handler, after the call settled: the parsed reply is
\* the body.
OcrJsSettled(result) ==
    CASE result.type \in {"reject", "badbody"} ->
            Respond(500, ErrorJson("An unexpected error occurred during OCR processing."))
      [] result.type = "status" ->
              Respond(500, ErrorJson("OCR processing failed. Please try again."))
      [] OTHER ->
            IF result.text = << >> THEN Respond(500, ErrorJson("No content returned from OCR."))
            ELSE LET first == JsonParse(result.text)
                     cleanedText == StripFences(result.text)
                     startIndex == IndexOf(cleanedText, "{")
                     endIndex == LastIndexOf(cleanedText, "}")
                     second == JsonParse(Substring(cleanedText, startIndex,
                                                   endIndex + 1))
                 IN  IF first.ok THEN Respond(200, first.json)
                     ELSE IF /\ startIndex # -1 /\ endIndex # -1
                             /\ endIndex > startIndex /\ second.ok
                          THEN Respond(200, second.json)
                     ELSE Respond(500, ErrorJson("Failed to parse OCR results."))

\* part_011 after the call settled: `out` is built key by key.
Part011Settled(result) ==
    CASE result.type \in {"reject", "badbody"} ->
            Respond(500, ErrorDetailsJson("Internal server error"))
      [] result.type = "status" -> Respond(result.status, ErrorJson("Gemini API error: "))
      [] OTHER ->
            IF result.text = << >> THEN Respond(500, ErrorJson("No text output from model."))
            ELSE LET first == JsonParse(result.text)
                     second == JsonParse(StripFences(result.text))
                 IN  IF ~first.ok /\ ~second.ok
                     THEN Respond(500, ErrorDetailsJson("Internal server error"))
                     ELSE LET extractedJson == IF first.ok THEN first.json
                                               ELSE second.json
                          IN  IF extractedJson.type \in {"object", "array"}
                              THEN Respond(200, JsonObject(ExtractKeys))
                              ELSE Respond(500, ErrorDetailsJson("Internal server error"))

Settled(h, result, strict) ==
    CASE h = "analyze.js" -> AnalyzeJsSettled(result, strict)
      [] h = "part_006" -> Part006Settled(result)
      [] h = "interpret" -> InterpretSettled(result)
      [] h = "ocr.js" -> OcrJsSettled(result)
      [] OTHER -> Part011Settled(result)

\* A request arrives at a handler; it answers at once or makes the call.
SyncReceive(h, request) ==
    /\ sync.pc \in {"idle", "done"}
    /\ LET out == Receive(h, request)
       IN  sync' = [pc |-> IF out.returns THEN "done" ELSE "calling",
                    handler |-> h, request |-> request,
                    calls |-> IF out.returns THEN 0 ELSE 1,
                    upstream |-> 0, text |-> << >>,
                    status |-> out.status, body |-> out.body]
    /\ UNCHANGED <<scan, env, nextId, req, analysisJobs, ocrJobs, worker, recording,
                   resp, lastSeen, firstPoll>>

\* The call settles and the handler returns its response.
SyncSettle(h, result, strict) ==
    /\ sync.pc = "calling"
    /\ sync.handler = h
    /\ LET out == Settled(h, result, strict)
       IN  sync' = [sync EXCEPT !.pc = "done",
                                !.upstream = IF result.type = "status"
                                             THEN result.status ELSE 0,
                                !.text = result.text,
                                !.status = out.status, !.body = out.body]
    /\ UNCHANGED <<scan, env, nextId, req, analysisJobs, ocrJobs, worker, recording,
                   resp, lastSeen, firstPoll>>

SyncInit ==
    /\ env \in [GEMINI_API_KEY : BOOLEAN]
    /\ nextId = 1
    /\ req = [r \in Reqs |-> IdleReq]
    /\ analysisJobs = << >>
    /\ ocrJobs = << >>
    /\ worker = [r \in Reqs |-> IdleWorker]
    /\ recording = FALSE
    /\ resp = NoResp
    /\ lastSeen = [j \in JobIds |-> "none"]
    /\ firstPoll = [r \in Reqs |-> "none"]
    /\ sync = IdleSync
    /\ scan = IdleScan

SyncNext ==
    \/ \E h \in SyncHandlers : \E request \in Requests(h) : SyncReceive(h, request)
    \/ \E h \in SyncHandlers, strict \in BOOLEAN :
          \E result \in SyncResults(h) : SyncSettle(h, result, strict)

SyncSpec == SyncInit /\ [][SyncNext]_vars

\* ------------------------------------------------------------------------
\* The OCR post-processing: from the object parsed out of the reply to the
\* output, field by field.  Numbers are held in thousandths; a string is
\* a sequence of characters.

Num(n) == [t |-> "number", n |-> n, s |-> << >>]
Str(s) == [t |-> "string", n |-> 0, s |-> s]
Null == [t |-> "null", n |-> 0, s |-> << >>]
Undefined == [t |-> "undefined", n |-> 0, s |-> << >>]
NaN == [t |-> "NaN", n |-> 0, s |-> << >>]
Obj == [t |-> "object", n |-> 0, s |-> << >>]
Text(m) == Str(<<m>>)

\* v == null (null or undefined).
IsNullish(v) == v.t \in {"null", "undefined"}

DigitChars == {"0", "1", "2", "3", "4", "5", "6", "7", "8", "9"}
DigitValue(c) ==
    CASE c = "0" -> 0 [] c = "1" -> 1 [] c = "2" -> 2 [] c = "3" -> 3 [] c = "4" -> 4
      [] c = "5" -> 5 [] c = "6" -> 6 [] c = "7" -> 7 [] c = "8" -> 8 [] OTHER -> 9

\* The number of digits of s from position i on (1-based).
RECURSIVE DigitRun(_, _)
DigitRun(s, i) ==
    IF i <= Len(s) /\ s[i] \in DigitChars THEN 1 + DigitRun(s, i + 1) ELSE 0

\* The integer the n digits of s from position i on denote.
RECURSIVE DigitsValue(_, _, _)
DigitsValue(s, i, n) ==
    IF n = 0 THEN 0
    ELSE 10 * DigitsValue(s, i, n - 1) + DigitValue(s[i + n - 1])

\* The thousandths the first three of the n digits of s from i on denote,
\* read as a decimal fraction.
FractionValue(s, i, n) ==
    LET d(j) == IF j <= n THEN DigitValue(s[i + j - 1]) ELSE 0
    IN  100 * d(1) + 10 * d(2) + d(3)

\* The longest prefix of s that is a decimal literal: sign, digits, '.',
\* digits.  `used` is its length, `digits` how many digits it holds.
Prefix(s) ==
    LET signed == Len(s) >= 1 /\ s[1] \in {"+", "-"}
        start == IF signed THEN 2 ELSE 1
        whole == DigitRun(s, start)
        dot == start + whole
        hasDot == dot <= Len(s) /\ s[dot] = "."
        frac == IF hasDot THEN DigitRun(s, dot + 1) ELSE 0
        magnitude == 1000 * DigitsValue(s, start, whole)
                     + (IF hasDot THEN FractionValue(s, dot + 1, frac) ELSE 0)
    IN  [digits |-> whole + frac,
         used |-> (start - 1) + whole + (IF hasDot THEN 1 + frac ELSE 0),
         value |-> IF signed /\ s[1] = "-" THEN 0 - magnitude ELSE magnitude]

\* parseFloat(s): the value of the longest numeric prefix, NaN without one.
parseFloat(s) ==
    LET p == Prefix(s)
    IN  IF p.digits = 0 THEN NaN ELSE Num(p.value)

\* Number(v), the conversion the operators < > / apply to an operand: a
\* string converts only as a whole, the empty string to 0.
ToNumber(v) ==
    CASE v.t = "number" -> v
      [] v.t = "null" -> Num(0)
      [] v.t = "string" ->
            IF v.s = << >> THEN Num(0)
            ELSE LET p == Prefix(v.s)
                 IN  IF p.digits > 0 /\ p.used = Len(v.s) THEN Num(p.value) ELSE NaN
      [] OTHER -> NaN

\* a < b and a > b on converted operands: false when either is NaN.
Less(a, b) == ToNumber(a).t = "number" /\ ToNumber(b).t = "number"
              /\ ToNumber(a).n < ToNumber(b).n
Greater(a, b) == Less(b, a)

\* !!v
IsTruthy(v) ==
    CASE v.t = "number" -> v.n # 0
      [] v.t = "string" -> v.s # << >>
      [] v.t = "object" -> TRUE
      [] OTHER -> FALSE

\* Rounding of a non-negative quotient a / b to the nearest integer.
RoundDiv(a, b) == (2 * a + b) \div (2 * b)

\* The fields followed through the post-processing: the two pressures,
\* which the unit corrections touch, and ph for the fields they do not.
ScanFields == {"ph", "pco2", "po2"}
Pressures == {"pco2", "po2"}

\* The physiological bounds [min, max] of a field, in thousandths.
bounds(k) ==
    CASE k = "ph" -> <<6000, 8000>>
      [] k = "pco2" -> <<500, 30000>>
      [] OTHER -> <<500, 100000>>

\* An output entry.  The handlers with a flat output give the value only:
\* their entries have no error and no warning field.
Entry(value, error, warning) == [value |-> value, error |-> error, warning |-> warning]
Flat(value) == Entry(value, Undefined, Undefined)


\* v.replace(/[^0-9.+-]/g, "")
Cleaned(s) == SelectSeq(s, LAMBDA c : c \in DigitChars \cup {".", "+", "-"})

\* part_011, toNum: null, a finite number as it is, a string through
\* parseFloat of its cleaned text, anything else null.
toNum(v) ==
    CASE IsNullish(v) -> Null
      [] v.t = "number" -> v
      [] v.t = "string" ->
            LET num == parseFloat(Cleaned(v.s))
            IN  IF num.t = "number" THEN num ELSE Null
      [] OTHER -> Null

\* part_011, the loop that builds out[k] from extractedJson[k].
Validated(k, v) ==
    LET num == toNum(v)
        min == bounds(k)[1]
        max == bounds(k)[2]
    IN  IF num = Null THEN Entry(Null, Text("Value missing or unreadable."), Null)
        ELSE IF num.n < min \/ num.n > max THEN Entry(Null, Text("Value outside physiological range."), Null)
        ELSE Entry(num, Null, Null)

\* +(v * 7.5).toFixed(3), v in thousandths.
TimesSevenPointFive(n) == RoundDiv(15 * n, 2)

\* tryCorrect with the bug of flagging every value below the threshold,
\* corrected or not.
tryCorrectAlwaysWarns(item, lowThresh, physMin, physMax) ==
    IF item.value = Null THEN [item EXCEPT !.warning = Text("Auto-corrected (value looked divided by 7.5).")]
    ELSE IF item.value.n < lowThresh
    THEN LET corrected == TimesSevenPointFive(item.value.n)
         IN  IF corrected >= physMin /\ corrected <= physMax
             THEN [item EXCEPT !.value = Num(corrected), !.warning = Text("Auto-corrected (value looked divided by 7.5).")]
             ELSE item
    ELSE item

\* tryCorrect with the bug of a threshold test that lets the value at the
\* threshold through.
tryCorrectInclusive(item, lowThresh, physMin, physMax) ==
    IF item.value = Null THEN item
    ELSE IF item.value.n <= lowThresh
    THEN LET corrected == TimesSevenPointFive(item.value.n)
         IN  IF corrected >= physMin /\ corrected <= physMax
             THEN [item EXCEPT !.value = Num(corrected), !.warning = Text("Auto-corrected (value looked divided by 7.5).")]
             ELSE item
    ELSE item

\* part_011, tryCorrect (part_009: fixDivide7_5), on the entry of its key.
tryCorrect(item, lowThresh, physMin, physMax) ==
    IF item.value = Null THEN item
    ELSE IF item.value.n < lowThresh
    THEN LET corrected == TimesSevenPointFive(item.value.n)
         IN  IF corrected >= physMin /\ corrected <= physMax
             THEN [item EXCEPT !.value = Num(corrected), !.warning = Text("Auto-corrected (value looked divided by 7.5).")]
             ELSE item
    ELSE item

\* lowThresh with the bug of one threshold of 5 for both pressures.
lowThreshFive(k) == 5000

\* The thresholds below which a pressure is taken to have been divided.
lowThresh(k) == IF k = "pco2" THEN 2500 ELSE 3000

\* part_011: the output entry of field k.
Part011Entry(k, v) ==
    IF k \in Pressures
    THEN tryCorrect(Validated(k, v), lowThresh(k), bounds(k)[1], bounds(k)[2])
    ELSE Validated(k, v)

\* ocr.js, handler, cleanNumber: as toNum.
cleanNumber(val) ==
    CASE IsNullish(val) -> Null
      [] val.t = "number" -> val
      [] val.t = "string" ->
            LET num == parseFloat(Cleaned(val.s))
            IN  IF num.t = "NaN" THEN Null ELSE num
      [] OTHER -> Null

\* ocr.js, handler: the loop over requiredKeys with `ranges`.
OcrJsEntry(k, v) ==
    LET num == cleanNumber(v)
    IN  IF num = Null THEN Flat(Null)
        ELSE IF num.n < bounds(k)[1] \/ num.n > bounds(k)[2] THEN Flat(Null)
        ELSE Flat(num)

\* parseFloat((v / 7.5).toFixed(2)), v in thousandths.
DividedBySevenPointFive(n) == 10 * RoundDiv(2 * n, 150)

\* part_005 and part_010: a pressure above 20 is taken to be in mmHg.
Converted(k, v) ==
    IF k \in Pressures /\ IsTruthy(v) /\ Greater(v, Num(20000))
    THEN Num(DividedBySevenPointFive(ToNumber(v).n))
    ELSE v

\* part_010: the bounds loop sets a value outside its bounds to null.
Bounded(k, v) ==
    IF v # Null /\ (Less(v, Num(bounds(k)[1])) \/ Greater(v, Num(bounds(k)[2])))
    THEN Null
    ELSE v

\* The key is added with null when the reply lacks it.
Keyed(v) == IF v.t = "undefined" THEN Null ELSE v

ScanHandlers == {"part_011", "ocr.js", "part_010", "part_005"}

EntryOf(h, k, v) ==
    CASE h = "part_011" -> Part011Entry(k, v)
      [] h = "ocr.js" -> OcrJsEntry(k, v)
      [] h = "part_010" -> Flat(Bounded(k, Converted(k, Keyed(v))))
      [] OTHER -> Flat(Converted(k, Keyed(v)))

\* The output with the bug of giving up on every field once one field
\* has no usable value.
OutputAllOrNothing(h, raw) ==
    IF \E k \in ScanFields : EntryOf(h, k, raw[k]).value = Null
    THEN [k \in ScanFields |-> Entry(Null, Text("Value missing or unreadable."), Null)]
    ELSE [k \in ScanFields |-> EntryOf(h, k, raw[k])]

\* The output object: one entry per key, each from its own raw value.
Output(h, raw) == [k \in ScanFields |-> EntryOf(h, k, raw[k])]

\* What the parsed reply can hold for a field: nothing, null, numbers
\* below, in and above the bounds and either side of the thresholds,
\* strings with and without a number in them, an object.
RawValues(k) ==
    CASE k = "ph" ->
            {Undefined, Num(7400), Num(9000), Str(<<"7", ".", "2", "6">>),
             Str(<<"a", "b", "c">>)}
      [] k = "pco2" ->
            {Undefined, Null, Num(-1000), Num(50), Num(300), Num(500), Num(1000), Num(2500),
             Num(5300), Num(25000), Num(40000), Str(<<"2", "4", ".", "1", " ", "(", "+", ")">>),
             Str(<<"a", "b", "c">>), Obj}
      [] OTHER ->
            {Undefined, Null, Num(2000), Num(3000), Num(12000), Num(90000),
             Num(150000), Str(<<"4", "5">>)}

\* The reply of an /ocr call has been parsed to an object.
ScanParsed(h, raw) ==
    /\ scan.pc = "idle"
    /\ scan' = [pc |-> "parsed", handler |-> h, raw |-> raw, again |-> "none",
                status |-> 0, out |-> [k \in ScanFields |-> Flat(Undefined)]]
    /\ UNCHANGED <<sync, env, nextId, req, analysisJobs, ocrJobs, worker, recording,
                   resp, lastSeen, firstPoll>>

\* The handler builds its output from the parsed object and returns 200.
ScanBuild ==
    /\ scan.pc = "parsed"
    /\ scan' = [scan EXCEPT !.pc = "done", !.status = 200,
                            !.out = Output(scan.handler, scan.raw)]
    /\ UNCHANGED <<sync, env, nextId, req, analysisJobs, ocrJobs, worker, recording,
                   resp, lastSeen, firstPoll>>

\* The same printout is read again with one field coming out differently.
ScanAgain(k, v) ==
    /\ scan.pc = "done"
    /\ v # scan.raw[k]
    /\ LET raw == [scan.raw EXCEPT ![k] = v]
       IN  scan' = [scan EXCEPT !.raw = raw, !.again = k,
                                !.out = Output(scan.handler, raw)]
    /\ UNCHANGED <<sync, env, nextId, req, analysisJobs, ocrJobs, worker, recording,
                   resp, lastSeen, firstPoll>>

\* The pass is applied again, to the values of the output it built.
ScanReclean ==
    /\ scan.pc = "done"
    /\ LET raw == [k \in ScanFields |-> scan.out[k].value]
       IN  scan' = [scan EXCEPT !.raw = raw, !.again = "output",
                                !.out = Output(scan.handler, raw)]
    /\ UNCHANGED <<sync, env, nextId, req, analysisJobs, ocrJobs, worker, recording,
                   resp, lastSeen, firstPoll>>

ScanInit ==
    /\ env \in [GEMINI_API_KEY : {TRUE}]
    /\ nextId = 1
    /\ req = [r \in Reqs |-> IdleReq]
    /\ analysisJobs = << >>
    /\ ocrJobs = << >>
    /\ worker = [r \in Reqs |-> IdleWorker]
    /\ recording = FALSE
    /\ resp = NoResp
    /\ lastSeen = [j \in JobIds |-> "none"]
    /\ firstPoll = [r \in Reqs |-> "none"]
    /\ sync = IdleSync
    /\ scan = IdleScan

ScanNext ==
    \/ \E h \in ScanHandlers :
          \E raw \in [ph : RawValues("ph"), pco2 : RawValues("pco2"),
                      po2 : RawValues("po2")] : ScanParsed(h, raw)
    \/ ScanBuild
    \/ \E k \in ScanFields : \E v \in RawValues(k) : ScanAgain(k, v)
    \/ ScanReclean

ScanSpec == ScanInit /\ [][ScanNext]_vars

\* ------------------------------------------------------------------------
\* The tail of the /analyze handlers: from the object parsed out of the
\* reply to the 200 body.  A value of the object is held by its type and,
\* for a string, its text ("0" or "7" for a number); a key the reply does
\* not have reads as undefined.

\* The number of required keys whose value is not a full-length string.
MaxOdd == 2

FillHandlers == {"analyze.js", "part_007", "part_006", "check-status.js"}

\* !v
Falsy(v) ==
    \/ v.type \in {"undefined", "null"}
    \/ v.type = "number" /\ v.text = "0"
    \/ v.type = "string" /\ v.text = ""

\* The objects a reply can parse to, by the values under the required keys.
ParsedReplies ==
    LET full == [type |-> "string",
                 text |-> "Primary metabolic acidosis with respiratory compensation."]
        odd == { [type |-> "undefined", text |-> ""],
                 [type |-> "null", text |-> ""],
                 [type |-> "number", text |-> "0"],
                 [type |-> "number", text |-> "7"],
                 [type |-> "object", text |-> ""],
                 [type |-> "string", text |-> ""],
                 [type |-> "string", text |-> "Normal."],
                 [type |-> "string", text |-> "Mild acidosis only."],
                 [type |-> "string", text |-> "Acute resp acidosis."] }
    IN  { o \in [AnalyzeKeys -> odd \cup {full}] :
            Cardinality({k \in AnalyzeKeys : o[k] # full}) <= MaxOdd }

\* The loop over the required keys that puts a default text where the
\* handler finds the value wanting.
EnsureKeys(h, extractedJson) ==
    LET wanting(v) ==
            IF h = "analyze.js"
            THEN Falsy(v) \/ v.type # "string" \/ Len(v.text) < 20
            ELSE Falsy(v)
        default(key) ==
            CASE h = "analyze.js" ->
                    key \o " analysis pending - please retry if this persists."
              [] h = "part_007" -> "Not performed for this analysis."
              [] OTHER -> "No data provided."
    IN  [key \in AnalyzeKeys |->
            IF wanting(extractedJson[key])
            THEN [type |-> "string", text |-> default(key)]
            ELSE extractedJson[key]]

\* The handler fills the object in and returns it with status 200.
FillReturn ==
    /\ sync.pc = "parsed"
    /\ sync' = [sync EXCEPT !.pc = "returned",
                            !.status = 200,
                            !.extractedJson = EnsureKeys(sync.handler, @)]
    /\ UNCHANGED <<scan, env, nextId, req, analysisJobs, ocrJobs, worker, recording,
                   resp, lastSeen, firstPoll>>

FillInit ==
    /\ env \in [GEMINI_API_KEY : {TRUE}]
    /\ nextId = 1
    /\ req = [r \in Reqs |-> IdleReq]
    /\ analysisJobs = << >>
    /\ ocrJobs = << >>
    /\ worker = [r \in Reqs |-> IdleWorker]
    /\ recording = FALSE
    /\ resp = NoResp
    /\ lastSeen = [j \in JobIds |-> "none"]
    /\ firstPoll = [r \in Reqs |-> "none"]
    /\ \E h \in FillHandlers, o \in ParsedReplies :
          sync = [pc |-> "parsed", handler |-> h, parsed |-> o, status |-> 0,
                  extractedJson |-> o]
    /\ scan = IdleScan

FillSpec == FillInit /\ [][FillReturn]_vars

\* ------------------------------------------------------------------------
\* The asynchronous workflow and a synchronous handler side by side: every
\* function that calls the completion service.

\* One synchronous invocation is followed to its response.
CallSpec == Init /\ [][Next \/ (sync.pc # "done" /\ SyncNext)]_vars

\* ------------------------------------------------------------------------
\* The user text of an analysis request: what the handler puts in the
\* prompt for each measured field and for each pre-computed value.  A piece
\* of the text is held by the JS value whose text it is; the empty string
\* is a line left out.

\* The number of fields of a request that are not plain numbers.
MaxMissing == 2

PromptHandlers == {"analyze.js", "analyze.js#2", "part_006", "process-analysis.js"}
PromptFields == {"ph", "pco2", "po2", "hco3", "sodium", "potassium", "chloride"}
Precomputed == {"ag", "sida", "side", "sig", "winters"}

\* A value of a field of `values`, by its shape: a number, absent, null, a
\* text, or an entry {value, error, warning} around a number or around null.
Shaped(f, shape) ==
    LET sample == [ph |-> 7400, pco2 |-> 5300, po2 |-> 12000, hco3 |-> 24000,
                   sodium |-> 140000, potassium |-> 4000, chloride |-> 100000]
    IN  CASE shape = "number" -> Num(sample[f])
          [] shape = "absent" -> Undefined
          [] shape = "null" -> Null
          [] shape = "text" -> Str(<<"a", "b", "c">>)
          [] shape = "entry" -> Entry(Num(sample[f]), Null, Null)
          [] OTHER -> Entry(Null, Text("Value missing or unreadable."), Null)

\* `values` of a request body: a number per field, but for at most
\* MaxMissing fields.
PromptInputs ==
    { [f \in PromptFields |-> Shaped(f, shapes[f])] :
        shapes \in { x \in [PromptFields -> {"number", "absent", "null", "text", "entry",
                                             "null entry"}] :
                        Cardinality({f \in PromptFields : x[f] # "number"}) <= MaxMissing } }

\* typeof v === "object" && "value" in v, and v as a handler sees it that
\* does not look inside: an object.
IsWrapped(v) == "value" \in DOMAIN v
Plain(v) == IF IsWrapped(v) THEN Obj ELSE v

\* const pick = (v) => (v && typeof v === "object" && "value" in v ? v.value : v)
pick(v) == IF IsWrapped(v) THEN v.value ELSE v

\* a + b: the concatenation of the two texts once an operand is a string
\* or an object ("#" stands for the digits of a number); else the sum of
\* the numbers, where null counts 0 and undefined and NaN give NaN.
JsAdd(a, b) ==
    LET text(v) == CASE v.t = "string" -> v.s
                     [] v.t = "object" -> <<"[object Object]">>
                     [] v.t = "number" -> <<"#">>
                     [] OTHER -> <<v.t>>
    IN  IF {a.t, b.t} \cap {"string", "object"} # {} THEN Str(text(a) \o text(b))
        ELSE IF {a.t, b.t} \subseteq {"number", "null"} THEN Num(a.n + b.n)
        ELSE NaN

\* a - b, on the operands converted to numbers (x and y).
JsSub(a, b) ==
    CHOOSE difference \in
        { IF x.t = "number" /\ y.t = "number" THEN Num(x.n - y.n) ELSE NaN :
            x \in {ToNumber(a)}, y \in {ToNumber(b)} } : TRUE

\* 1.5 * hco3 + 8
WintersFormula(hco3) ==
    CHOOSE expected \in
        { IF x.t = "number" THEN Num((3 * x.n) \div 2 + 8000) ELSE NaN :
            x \in {ToNumber(hco3)} } : TRUE

\* isNaN(v) ? "not available" : v
UnlessNaN(v) == IF ToNumber(v).t = "number" THEN v ELSE Text("not available")

\* x.toFixed(2) of a number or NaN: the decimal text with two places,
\* held by the number it denotes; "NaN" for NaN.
toFixed(x) == IF x.t = "number" THEN Num(10 * RoundDiv(x.n, 10)) ELSE NaN

\* What building the prompt comes to: a response without a call, or the
\* pieces of the text sent.
NoPrompt(status) ==
    [status |-> status, prompt |-> [f \in PromptFields |-> Str(<< >>)],
     computed |-> [c \in Precomputed |-> Str(<< >>)]]
Prompt(prompt, computed) == [status |-> 0, prompt |-> prompt, computed |-> computed]

\* analyze.js, exports.handler: ph and pco2 must be numbers; a line per
\* field unless the value is null.
AnalyzeJsPrompt(values) ==
    LET line(v) == IF v.t # "null" THEN v ELSE Str(<< >>)
    IN  IF Plain(values["ph"]).t # "number" \/ Plain(values["pco2"]).t # "number"
        THEN NoPrompt(400)
        ELSE Prompt([f \in PromptFields |->
                        IF f \in {"ph", "pco2"} THEN Plain(values[f])
                        ELSE line(Plain(values[f]))],
                    [c \in Precomputed |-> Str(<< >>)])

\* analyze.js, the second handler, the pre-computed values: ?? 0 in the
\* sums, isNaN(x) ? "not available" : x in the text.
Analyze2Computed(na, k, cl, hco3) ==
    LET orZero(v) == IF IsNullish(v) THEN Num(0) ELSE v
        sida == JsSub(JsAdd(orZero(na), orZero(k)), orZero(cl))
        side == JsAdd(orZero(hco3), Num(10625))
    IN  [ag |-> UnlessNaN(JsSub(JsAdd(orZero(na), orZero(k)),
                                JsAdd(orZero(cl), orZero(hco3)))),
         sida |-> UnlessNaN(sida),
         side |-> UnlessNaN(side),
         sig |-> UnlessNaN(JsSub(sida, side)),
         winters |-> IF hco3 # Null THEN toFixed(WintersFormula(hco3))
                     ELSE Text("not available")]

\* x ?? text
OrText(x, text) == IF IsNullish(x) THEN Text(text) ELSE x

\* analyze.js, the second handler: the check on ph and pco2, no unwrapping.
Analyze2Prompt(values) ==
    LET orNull(f) == IF IsNullish(Plain(values[f])) THEN Null ELSE Plain(values[f])
    IN  IF ~IsTruthy(Plain(values["ph"])) \/ ~IsTruthy(Plain(values["pco2"]))
        THEN NoPrompt(400)
        ELSE Prompt([f \in PromptFields |->
                        IF f \in {"ph", "pco2"} THEN Plain(values[f])
                        ELSE OrText(orNull(f), "not provided")],
                    Analyze2Computed(orNull("sodium"), orNull("potassium"),
                                     orNull("chloride"), orNull("hco3")))

\* part_006, the pre-computed values: each sum guarded by != null on its
\* inputs, toFixed(2), and ?? "not available" in the text.
Part006Computed(na, k, cl, hco3) ==
    LET sida == IF ~IsNullish(na) /\ ~IsNullish(k) /\ ~IsNullish(cl)
                THEN toFixed(JsSub(JsAdd(na, k), cl))
                ELSE Null
        side == IF ~IsNullish(hco3) THEN toFixed(JsAdd(hco3, Num(10625))) ELSE Null
    IN  [ag |-> IF ~IsNullish(na) /\ ~IsNullish(k) /\ ~IsNullish(cl) /\ ~IsNullish(hco3)
                THEN toFixed(JsSub(JsAdd(na, k), JsAdd(cl, hco3)))
                ELSE Text("not available"),
         sida |-> OrText(sida, "not available"),
         side |-> OrText(side, "not available"),
         sig |-> IF ~IsNullish(sida) /\ ~IsNullish(side)
                 THEN toFixed(JsSub(sida, side))
                 ELSE Text("not available"),
         winters |-> IF ~IsNullish(hco3) THEN toFixed(WintersFormula(hco3))
                     ELSE Text("not available")]

\* part_006 (and the /analyze handler of check-status.js): the check on
\* the values as sent, then pick, the sums and the text.  toFixed of a
\* concatenation throws, which the catch block answers with 500.
Part006Prompt(values) ==
    IF ~IsTruthy(Plain(values["ph"])) \/ ~IsTruthy(Plain(values["pco2"]))
    THEN NoPrompt(400)
    ELSE IF pick(values["hco3"]).t = "string" THEN NoPrompt(500)
    ELSE Prompt([f \in PromptFields |->
                    IF f \in {"ph", "pco2"} THEN pick(values[f])
                    ELSE OrText(pick(values[f]), "not provided")],
                Part006Computed(pick(values["sodium"]), pick(values["potassium"]),
                                pick(values["chloride"]), pick(values["hco3"])))

\* process-analysis.js: a line for every entry of Object.entries(values)
\* that is not null and converts to a number.
WorkerPrompt(values) ==
    Prompt([f \in PromptFields |->
               LET value == Plain(values[f])
               IN  IF value.t # "null" /\ ToNumber(value).t = "number"
                   THEN value ELSE Str(<< >>)],
           [c \in Precomputed |-> Str(<< >>)])

\* The handler builds its prompt from the values of the request.
BuildPrompt ==
    /\ sync.pc = "received"
    /\ LET out == CASE sync.handler = "analyze.js" -> AnalyzeJsPrompt(sync.values)
                    [] sync.handler = "analyze.js#2" -> Analyze2Prompt(sync.values)
                    [] sync.handler = "part_006" -> Part006Prompt(sync.values)
                    [] OTHER -> WorkerPrompt(sync.values)
       IN  sync' = [sync EXCEPT !.pc = IF out.status = 0 THEN "calling" ELSE "done",
                                !.status = out.status,
                                !.prompt = out.prompt,
                                !.computed = out.computed]
    /\ UNCHANGED <<scan, env, nextId, req, analysisJobs, ocrJobs, worker, recording,
                   resp, lastSeen, firstPoll>>

PromptInit ==
    /\ env \in [GEMINI_API_KEY : {TRUE}]
    /\ nextId = 1
    /\ req = [r \in Reqs |-> IdleReq]
    /\ analysisJobs = << >>
    /\ ocrJobs = << >>
    /\ worker = [r \in Reqs |-> IdleWorker]
    /\ recording = FALSE
    /\ resp = NoResp
    /\ lastSeen = [j \in JobIds |-> "none"]
    /\ firstPoll = [r \in Reqs |-> "none"]
    /\ \E h \in PromptHandlers, values \in PromptInputs :
          sync = [pc |-> "received", handler |-> h, values |-> values, status |-> 0,
                  prompt |-> NoPrompt(0).prompt, computed |-> NoPrompt(0).computed]
    /\ scan = IdleScan

PromptSpec == PromptInit /\ [][BuildPrompt]_vars

\* ------------------------------------------------------------------------
\* Properties.

Terminal == {"complete", "failed"}

\* The request has been given a job id, and the record stored under it.
HasJob(r) == req[r].jobId # EmptyId
HasRecord(r) == HasJob(r) /\ Has(StoreOf(req[r].kind), req[r].jobId)
RecordOf(r) == StoreOf(req[r].kind)[req[r].jobId]

\* The worker invocation of request r has ended (returned or thrown).
Ended(r) == worker[r].pc \in {"done", "crashed"}

\* The step in which submit r returns its 202 response.
Accepts(r) == req[r].status # 202 /\ req'[r].status = 202

\* C1: the statuses the polls of one job return are a run of 'pending'
\* followed by a run of one terminal status: every status returned is
\* pending, complete or failed, and once a poll has returned a terminal
\* status every later poll returns that same status.
PollsArePendingThenTerminal ==
    /\ [](\A j \in Ids : lastSeen[j] \in {"none", "pending"} \cup Terminal)
    /\ [][\A j \in Ids : lastSeen[j] \in Terminal => lastSeen'[j] = lastSeen[j]]_vars

\* A first poll returned 'pending' and a later poll of the same job 'complete'.
PolledPendingThenComplete ==
    \E r \in Slots :
        /\ firstPoll[r] = "pending"
        /\ lastSeen[req[r].jobId] = "complete"

\* C2: every execution of the worker performs exactly one write to the
\* job's key: when the invocation has ended it has written once, and it
\* never writes a second time.
WorkerWritesExactlyOnce ==
    \A r \in Slots :
        /\ worker[r].writes <= 1
        /\ Ended(r) => worker[r].writes = 1

\* C3: on every path of the worker the job's record ends 'complete' or
\* 'failed', and a 'failed' record carries a non-empty error string; no
\* path leaves the record 'pending'.
WorkerEndsInTerminalRecord ==
    \A r \in Slots :
        Ended(r) =>
            /\ HasRecord(r)
            /\ RecordOf(r).status \in Terminal
            /\ RecordOf(r).status = "failed" => RecordOf(r).error # ""

\* C4: a record with status 'complete' holds every required key of the
\* job's mode.
CompleteIsFullyKeyed ==
    \A r \in Slots :
        (HasRecord(r) /\ RecordOf(r).status = "complete")
            => RequiredKeys(req[r].kind) \subseteq RecordOf(r).data

\* C5: when submit returns 202 the store holds {status: 'pending', data:
\* payload} under the new job id and exactly one worker invocation has been
\* scheduled with (jobId, payload); no two requests are given the same job
\* id, and a job's record is in the store of its kind only.
SubmitStoresAndSchedulesOnce ==
    /\ [][\A r \in Slots :
            Accepts(r) =>
                /\ HasJob(r)'
                /\ HasRecord(r)'
                /\ RecordOf(r)' = PendingRecord(req'[r].jobData)
                /\ worker'[r].invocations = 1
                /\ worker'[r].fn = FunctionName(req'[r].kind)
                /\ worker'[r].jobId = req'[r].jobId
                /\ worker'[r].jobData = req'[r].jobData]_vars
    /\ [](\A r \in Slots :
            /\ worker[r].invocations <= 1
            /\ req[r].status = 202 => worker[r].invocations = 1
            /\ \A q \in Slots :
                  (q # r /\ HasJob(q) /\ HasJob(r)) => req[q].jobId # req[r].jobId)
    /\ [](DOMAIN analysisJobs \cap DOMAIN ocrJobs = {})

\* Two submissions have both been accepted.
TwoJobsAccepted ==
    \E r \in Slots, q \in Slots :
        /\ q # r
        /\ req[r].status = 202 /\ HasRecord(r)
        /\ req[q].status = 202 /\ HasRecord(q)
        /\ req[q].kind = req[r].kind

\* C6 as stated: the first poll after submit returned the job id reports
\* 'pending' (a poll that fails on the store read is not held against it).
FirstPollIsPending ==
    \A r \in Slots : firstPoll[r] \in {"none", "pending", "error"}

\* C6 as amended: the first poll after submit returned the job id never
\* answers 404; unless the store read fails it reports the status of the
\* job's record at that moment, which is 'pending' as long as the worker
\* has not written.
FirstPollReportsRecord ==
    [][\A r \in Slots :
          (firstPoll[r] = "none" /\ firstPoll'[r] # "none") =>
              /\ firstPoll'[r] # "notfound"
              /\ firstPoll'[r] # "error" =>
                    /\ HasRecord(r)
                    /\ firstPoll'[r] = RecordOf(r).status
                    /\ worker[r].writes = 0 => firstPoll'[r] = "pending"]_vars

\* The worker had written its terminal record before the first poll.
FirstPollSawTerminal ==
    \E r \in Slots : firstPoll[r] \in Terminal

\* C7: submit does not wait for the background work: when it returns 202
\* the worker has only been scheduled (no completion-service call made, no
\* record written by it, the record still pending), and once the pending
\* record is written the scheduling step can be taken whatever the workers
\* are doing.
SubmitDoesNotWait ==
    /\ [][\A r \in Slots :
            Accepts(r) =>
                /\ req[r].pc = "written"
                /\ worker'[r].pc = "scheduled"
                /\ worker'[r].calls = 0
                /\ worker'[r].writes = 0
                /\ RecordOf(r)'.status = "pending"]_vars
    /\ [](\A r \in Slots : req[r].pc = "written" => ENABLED SubmitSchedule(r, TRUE))

\* A submit has returned 202 and its worker waits on a completion service
\* that never answers.
ReturnedWhileWorkerWaits ==
    \E r \in Slots :
        /\ req[r].status = 202
        /\ worker[r].pc = "fetching" /\ worker[r].svc = "silent"
        /\ RecordOf(r).status = "pending"

\* The record check-status reads for an id, by handler.
Readable(handler, id) ==
    \/ Has(analysisJobs, id)
    \/ handler = "check-status" /\ Has(ocrJobs, id)
ReadRecord(id) == IF Has(analysisJobs, id) THEN analysisJobs[id] ELSE ocrJobs[id]

IsErrorBody(body) == DOMAIN body = {"error"}

\* C8 as stated: 400 with an {error} body without an id, 404 with an
\* {error} body when no record exists, otherwise 200 with the record.
CheckStatusThreeWay ==
    resp.handler # "" =>
        IF resp.id \in {NoId, EmptyId}
        THEN resp.code = 400 /\ IsErrorBody(resp.body)
        ELSE IF ~Readable(resp.handler, resp.id)
        THEN resp.code = 404 /\ IsErrorBody(resp.body)
        ELSE resp.code = 200 /\ resp.body = ReadRecord(resp.id)

\* C8 as amended: as stated when the store can be read; when reading the
\* store throws, 500 with an {error} body.
CheckStatusFourWay ==
    resp.handler # "" =>
        IF resp.id \in {NoId, EmptyId}
        THEN resp.code = 400 /\ IsErrorBody(resp.body)
        ELSE IF ~resp.readOk
        THEN resp.code = 500 /\ IsErrorBody(resp.body)
        ELSE IF ~Readable(resp.handler, resp.id)
        THEN resp.code = 404 /\ IsErrorBody(resp.body)
        ELSE resp.code = 200 /\ resp.body = ReadRecord(resp.id)

\* The two-store handler has answered 200 with the failed record of an OCR job.
PolledFailedRecord ==
    /\ resp.code = 200
    /\ resp.body = FailedRecord("API key not configured.")
    /\ resp.handler = "check-status"
    /\ Has(ocrJobs, resp.id)

\* The input fields a submit must carry: values.ph and values.pco2 for an
\* analysis job, image for an OCR job.
RequiredInput(kind) == IF kind = "analysis" THEN {"values", "ph", "pco2"} ELSE {"image"}

\* C9: a submit whose payload lacks a required input field fails: it is
\* not answered 202, no record is written for it and no worker scheduled.
SubmitValidatesInput ==
    \A r \in Slots :
        (HasJob(r) /\ ~(RequiredInput(req[r].kind) \subseteq req[r].jobData)) =>
            /\ req[r].status # 202
            /\ ~HasRecord(r)
            /\ worker[r].invocations = 0

\* C10: a completion-service call that is never answered is ended by a
\* timeout: the worker that waits on it can still take its next step, to
\* the 'failed' record.
SilentCallTimesOut ==
    \A r \in Slots :
        (worker[r].pc = "fetching" /\ worker[r].svc = "silent") =>
            ENABLED (\E result \in FetchResults(KindOf(worker[r].fn)) :
                        WorkerFetched(r, result))

\* ------------------------------------------------------------------------
\* Properties of the synchronous handlers.

\* A synchronous handler has taken a request (and may be waiting for the
\* completion service); it has returned its response.
Invoked == sync.pc # "idle"
Responded == sync.pc = "done"
IsAnalyze == sync.handler \in {"analyze.js", "part_006"}
HasErrorBody == sync.body.type = "object" /\ "error" \in sync.body.keys

\* The request is a POST whose body parsed, and values.ph or values.pco2
\* is absent or not a number.
LacksNumericInput ==
    /\ sync.request.method = "POST"
    /\ sync.request.bodyOk
    /\ \/ FieldOf(sync.request, "ph") # "number"
       \/ FieldOf(sync.request, "pco2") # "number"

\* C11: an /analyze request in which values.ph or values.pco2 is absent
\* or not a number is answered 400 with an {error} body, and no call to
\* the completion service is made for it.
AnalyzeRejectsNonNumeric ==
    (Invoked /\ IsAnalyze /\ LacksNumericInput)
        => /\ Responded
           /\ sync.status = 400
           /\ HasErrorBody
           /\ sync.calls = 0

\* C12: while GEMINI_API_KEY is absent, a synchronous handler answers a
\* POST with 500 and an {error} body, a background worker that has ended
\* has left its job's record 'failed', and neither has called the
\* completion service.
NoCredentialFailsFast ==
    ~env.GEMINI_API_KEY =>
        /\ (Invoked /\ sync.request.method = "POST")
              => /\ Responded
                 /\ sync.status = 500
                 /\ HasErrorBody
                 /\ sync.calls = 0
        /\ \A r \in Slots :
              /\ worker[r].calls = 0
              /\ Ended(r) => (HasRecord(r) /\ RecordOf(r).status = "failed")

\* The completion service answered the handler's call with a non-success
\* status; rate limiting (429), which has a status of its own, aside.
UpstreamFailed == Responded /\ sync.upstream \notin {0, 429}

\* C13: when the completion service answers with a non-success status
\* such as 503, the synchronous handler responds 502 or 500 with an
\* {error} body, and the record a worker writes in its catch block is
\* {status: 'failed', error: <string>}.
UpstreamFailureIsGatewayError ==
    /\ UpstreamFailed => (sync.status \in {500, 502} /\ HasErrorBody)
    /\ \A r \in Slots :
          (worker[r].pc = "done" /\ HasRecord(r) /\ RecordOf(r).status = "failed")
              => RecordOf(r).error \in STRING

\* The statuses an error response may carry.
ErrorStatuses == {400, 404, 405, 429, 500, 502}

\* C14: every non-success response has a JSON object body with a string
\* `error` field and a status among 400, 404, 405, 429, 500, 502; an
\* upstream status outside this set is never passed through.
ErrorsAreUniform ==
    (Responded /\ sync.status # 200)
        => /\ HasErrorBody
           /\ sync.body.error \in STRING
           /\ sync.status \in ErrorStatuses

\* C15: whatever text the completion service returned, a 200 response
\* carries a JSON object that holds every required key of the handler's
\* mode; no 200 body is partially shaped or not an object.
OutputIsFullyKeyed ==
    (Responded /\ sync.status = 200)
        => /\ sync.body.type = "object"
           /\ HandlerKeys(sync.handler) \subseteq sync.body.keys

\* ------------------------------------------------------------------------
\* Properties of the OCR post-processing.

Built == scan.pc = "done"
HasValue(e) == ~IsNullish(e.value)
HasError(e) == ~IsNullish(e.error)
HasWarning(e) == ~IsNullish(e.warning)

\* The bounds table and the correction thresholds as documented, in
\* thousandths: ph 6.0-8.0, pco2 0.5-30, po2 0.5-100; 2.5 and 3.0 kPa.
RangeOf(k) ==
    CASE k = "ph" -> <<6000, 8000>> [] k = "pco2" -> <<500, 30000>> [] OTHER -> <<500, 100000>>
ThresholdOf(k) == IF k = "pco2" THEN 2500 ELSE 3000
InRange(k, n) == n >= RangeOf(k)[1] /\ n <= RangeOf(k)[2]
\* 7.5 * n lies within the range of k.
ProductInRange(k, n) == 15 * n >= 2 * RangeOf(k)[1] /\ 15 * n <= 2 * RangeOf(k)[2]

\* C16: in the output of the extractors with a bounds table, no field
\* has a non-null numeric value outside its bounds (a corrected value
\* included), and a raw number outside its bounds appears with a
\* non-null error.
RangeEnforced ==
    (Built /\ scan.handler \in {"part_011", "part_010"}) =>
        \A k \in ScanFields :
            /\ scan.out[k].value.t = "number" => InRange(k, scan.out[k].value.n)
            /\ (scan.raw[k].t = "number" /\ ~InRange(k, scan.raw[k].n))
                  => HasError(scan.out[k])

\* C17: in every output entry the value is null whenever the error is
\* non-null, and a warning is non-null only together with a non-null
\* value and a null error.
EntryIsConsistent ==
    Built =>
        \A k \in ScanFields :
            /\ HasError(scan.out[k]) => ~HasValue(scan.out[k])
            /\ HasWarning(scan.out[k])
                  => (HasValue(scan.out[k]) /\ ~HasError(scan.out[k]))

\* part_011 has built an output with a corrected pressure (warning) next
\* to a rejected pressure (error).
BuiltWarningAndError ==
    /\ Built
    /\ scan.handler = "part_011"
    /\ HasWarning(scan.out["pco2"]) /\ HasValue(scan.out["pco2"])
    /\ HasError(scan.out["po2"]) /\ scan.raw["po2"].t = "number"

\* C18: for pco2 and po2 in part_011: a number within the range and
\* below the threshold whose product with 7.5 is within the range is
\* replaced by the product and flagged with a warning; a number below the
\* threshold whose product is out of range ends as {value: null, error}
\* without a warning; a number at or above the threshold is never changed.
AutoCorrectionBoundary ==
    (Built /\ scan.handler = "part_011") =>
        \A k \in Pressures :
            scan.raw[k].t = "number" =>
                LET n == scan.raw[k].n
                    e == scan.out[k]
                IN  /\ (InRange(k, n) /\ n < ThresholdOf(k) /\ ProductInRange(k, n))
                          => /\ e.value.t = "number"
                             /\ 2 * e.value.n = 15 * n
                             /\ HasWarning(e)
                    /\ (n < ThresholdOf(k) /\ ~ProductInRange(k, n))
                          => (~HasValue(e) /\ HasError(e) /\ ~HasWarning(e))
                    /\ n >= ThresholdOf(k)
                          => /\ ~HasWarning(e)
                             /\ IF InRange(k, n) THEN e.value = Num(n)
                                ELSE ~HasValue(e) /\ HasError(e)

\* part_011 has corrected a pco2 of 1.0 to 7.5 and left a po2 of 3.0, at
\* its threshold, alone.
CorrectedOneKeptOther ==
    /\ Built
    /\ scan.handler = "part_011"
    /\ scan.raw["pco2"] = Num(1000) /\ scan.out["pco2"].value = Num(7500)
    /\ scan.raw["po2"] = Num(3000) /\ scan.out["po2"].value = Num(3000)

\* C19: whenever the output number of a pressure differs from the number
\* the completion service returned for it, the entry carries a non-null
\* warning.
CorrectionIsFlagged ==
    (Built /\ scan.handler \in {"part_011", "part_010", "part_005"}) =>
        \A k \in Pressures :
            (/\ scan.raw[k].t = "number"
             /\ scan.out[k].value.t = "number"
             /\ scan.out[k].value.n # scan.raw[k].n)
                => HasWarning(scan.out[k])

ReplyUnparsable ==
    /\ Responded
    /\ sync.calls = 1
    /\ sync.text # << >>
    /\ ~JsonParse(sync.text).ok
    /\ ~JsonParse(SliceBraces(StripFences(sync.text))).ok

\* C21: a reply without a parsable JSON object is answered 500 with an
\* {error} body by the synchronous handler; it never yields a 200.
UnparsableReplyIsError ==
    ReplyUnparsable => (sync.status = 500 /\ HasErrorBody)

\* The keys of a store whose record is new or different after the step.
Written(before, after) ==
    {k \in DOMAIN after : ~Has(before, k) \/ before[k] # after[k]}

\* A submit handler is inside its store.set call; a worker is inside one.
SubmitWriting(r) == req[r].pc = "writing"
WorkerWriting(r) == worker[r].pc \in {"complete", "catch"}

\* The write of key k to the store of a kind is the pending write of the
\* request that was given k, made before its worker exists.
IsPendingWrite(kind, k, after) ==
    \E r \in Slots :
        /\ SubmitWriting(r)
        /\ req[r].kind = kind
        /\ req[r].jobId = k
        /\ after[k] = PendingRecord(req[r].jobData)
        /\ worker[r].pc = "none"

\* The write of key k is the terminal write of the worker invoked with k,
\* made when the pending write of k has completed.
IsTerminalWrite(kind, k, after) ==
    \E r \in Slots :
        /\ WorkerWriting(r)
        /\ KindOf(worker[r].fn) = kind
        /\ worker[r].jobId = k
        /\ after[k].status \in Terminal
        /\ req[r].jobId = k
        /\ req[r].pc = "done"
        /\ Has(StoreOf(kind), k)

IsSubstantial(v) == v.type = "string" /\ Len(v.text) >= 20

\* C23: in the analysis result returned with 200 every required key maps
\* to a string of at least 20 characters: a value that was one is returned
\* unchanged, any other value has been replaced by a placeholder text.
ResultIsSubstantial ==
    (sync.pc = "returned" /\ sync.status = 200) =>
        \A key \in AnalyzeKeys :
            /\ IsSubstantial(sync.extractedJson[key])
            /\ IsSubstantial(sync.parsed[key]) =>
                   sync.extractedJson[key] = sync.parsed[key]
            /\ ~IsSubstantial(sync.parsed[key]) =>
                   sync.extractedJson[key] # sync.parsed[key]

\* ------------------------------------------------------------------------
\* Properties of the calls to the completion service.

\* The synchronous handler turned the request away before its call: the
\* method, the body or the credential was wrong, or it answered 400 or 405
\* on its own account.
RejectedBeforehand ==
    /\ Responded
    /\ \/ sync.request.method # "POST"
       \/ ~sync.request.bodyOk
       \/ ~env.GEMINI_API_KEY
       \/ sync.status \in {400, 405}

\* C24: an invocation of a synchronous handler or of a background worker
\* calls the completion service at most once, whatever the call comes to,
\* and not at all when it turns the request away beforehand.
CallsAtMostOnce ==
    /\ Invoked => sync.calls <= 1
    /\ RejectedBeforehand => sync.calls = 0
    /\ \A r \in Slots :
          /\ worker[r].calls <= 1
          /\ worker[r].error \in {"API key not configured.", "Cannot convert undefined or null to object"} => worker[r].calls = 0

\* A handler and a worker have each made their call, both calls failed and
\* both invocations have ended.
BothCallsFailed ==
    /\ Responded
    /\ sync.calls = 1
    /\ sync.status # 200
    /\ \E r \in Slots :
          /\ worker[r].pc = "done"
          /\ worker[r].calls = 1
          /\ HasRecord(r)
          /\ RecordOf(r).status = "failed"

\* ------------------------------------------------------------------------
\* Properties of the analysis prompt.

\* The handler has built its prompt and makes the call.
PromptBuilt == sync.pc = "calling"

\* The measurement a field of the request carries: the value inside an
\* entry, the value itself otherwise.
Measured(f) == IF IsWrapped(sync.values[f]) THEN sync.values[f].value ELSE sync.values[f]

\* C25: in the user text of an analysis request a field whose value is
\* absent (null or undefined) or not a number reads "not provided", and a
\* field whose value is a number reads as that number.
MissingIsMarked ==
    PromptBuilt =>
        \A f \in PromptFields :
            IF Measured(f).t = "number"
            THEN sync.prompt[f] = Measured(f)
            ELSE sync.prompt[f] = Text("not provided")

\* The step applies the pass of part_011 to the values of its own output.
Recleans ==
    /\ scan.pc = "done"
    /\ scan.handler = "part_011"
    /\ scan'.again = "output"
    /\ scan'.raw = [k \in ScanFields |-> scan.out[k].value]

\* C26 as stated: applying the pass again to the values it produced gives
\* the identical value and the identical error for every field.
RecleanIsIdentical ==
    [][Recleans =>
          \A k \in ScanFields :
              /\ scan'.out[k].value = scan.out[k].value
              /\ scan'.out[k].error = scan.out[k].error]_vars

\* C26: applying the pass again to the values it produced gives the
\* identical value for every field, no second correction of a pressure,
\* and an error exactly for the fields that had one: the error it had,
\* but "Value missing or unreadable." where the field was out of range.
RecleanKeepsValues ==
    [][Recleans =>
          \A k \in ScanFields :
              /\ scan'.out[k].value = scan.out[k].value
              /\ ~HasWarning(scan'.out[k])
              /\ IF HasError(scan.out[k])
                 THEN scan'.out[k].error = Text("Value missing or unreadable.")
                 ELSE scan'.out[k].error = scan.out[k].error]_vars

\* part_011 has gone again over an output in which pco2 had been corrected
\* from 0.5 to 3.75 and po2 rejected, and left pco2 at 3.75.
RecleanedCorrected ==
    /\ scan.pc = "done"
    /\ scan.handler = "part_011"
    /\ scan.again = "output"
    /\ scan.raw["pco2"] = Num(3750)
    /\ scan.out["pco2"].value = Num(3750)
    /\ ~HasWarning(scan.out["pco2"])
    /\ scan.raw["po2"] = Null
    /\ HasError(scan.out["po2"])

\* ------------------------------------------------------------------------
\* Properties of the lookup of check-status.

\* The two-store handler has answered a poll that named an id.
PolledById == resp.handler = "check-status" /\ resp.id \notin {NoId, EmptyId}

\* No step changes a record while a poll is answered.
PollsDoNotWrite ==
    [][(resp' # resp \/ lastSeen' # lastSeen \/ firstPoll' # firstPoll)
          => (analysisJobs' = analysisJobs /\ ocrJobs' = ocrJobs)]_vars

\* C27 as stated: the record of 'analysisJobs' is returned when there is
\* one, otherwise the record of 'ocrJobs', and 404 only when neither store
\* has a record for the id; a poll writes to neither store.
LookupReturnsRecord ==
    /\ [](PolledById =>
            /\ Has(analysisJobs, resp.id)
                  => (resp.code = 200 /\ resp.body = analysisJobs[resp.id])
            /\ (~Has(analysisJobs, resp.id) /\ Has(ocrJobs, resp.id))
                  => (resp.code = 200 /\ resp.body = ocrJobs[resp.id])
            /\ resp.code = 404
                  => (~Has(analysisJobs, resp.id) /\ ~Has(ocrJobs, resp.id)))
    /\ PollsDoNotWrite

\* C27: unless a store call throws (500), the record of 'analysisJobs' is
\* returned when there is one, otherwise the record of 'ocrJobs', and 404
\* exactly when neither store has a record for the id; a poll writes to
\* neither store.
LookupReturnsRecordIfReadable ==
    /\ [](PolledById =>
            IF ~resp.readOk THEN resp.code = 500
            ELSE /\ Has(analysisJobs, resp.id)
                       => (resp.code = 200 /\ resp.body = analysisJobs[resp.id])
                 /\ (~Has(analysisJobs, resp.id) /\ Has(ocrJobs, resp.id))
                       => (resp.code = 200 /\ resp.body = ocrJobs[resp.id])
                 /\ resp.code = 404
                       <=> (~Has(analysisJobs, resp.id) /\ ~Has(ocrJobs, resp.id)))
    /\ PollsDoNotWrite

\* The two-store handler has answered 200 with the complete record of an
\* OCR job, found in 'ocrJobs' after 'analysisJobs' had none.
PolledOcrAfterAnalysis ==
    /\ PolledById
    /\ resp.code = 200
    /\ ~Has(analysisJobs, resp.id)
    /\ Has(ocrJobs, resp.id)
    /\ resp.body.status = "complete"

\* ------------------------------------------------------------------------
\* Properties of a refused submit.

\* C28: a submit answered 405 or 500 has left no record in the store and
\* no worker scheduled.
ErrorLeavesNothing ==
    \A r \in Slots :
        req[r].status \in {405, 500} =>
            /\ ~HasRecord(r)
            /\ worker[r].invocations = 0


\* The values of the request with every entry replaced by the value inside.
Unwrapped == [f \in PromptFields |-> Measured(f)]

\* What an /analyze handler makes of the values of a request.
AnalyzeOutcome(h, values) ==
    CASE h = "analyze.js" -> AnalyzeJsPrompt(values)
      [] h = "analyze.js#2" -> Analyze2Prompt(values)
      [] OTHER -> Part006Prompt(values)

\* C29: an /analyze handler makes of a request with wrapped fields what it
\* makes of the same request with the raw values: the same accept or reject
\* decision, the same prompt values and the same pre-computed values.
WrappedIsLikeRaw ==
    (sync.pc # "received" /\ sync.handler # "process-analysis.js") =>
        [status |-> sync.status, prompt |-> sync.prompt, computed |-> sync.computed]
            = AnalyzeOutcome(sync.handler, Unwrapped)


\* The fields of the request a pre-computed value depends on.
Needs(c) ==
    CASE c = "sida" -> {"sodium", "potassium", "chloride"}
      [] c \in {"side", "winters"} -> {"hco3"}
      [] OTHER -> {"sodium", "potassium", "chloride", "hco3"}

\* C30: a pre-computed value of the prompt reads "not available" exactly
\* when a measurement it depends on is absent (null or undefined); an
\* absent measurement never counts as 0.
AbsentIsNotAvailable ==
    (PromptBuilt /\ sync.handler \in {"part_006", "analyze.js#2"}) =>
        \A c \in Precomputed :
            (sync.computed[c] = Text("not available"))
                <=> (\E f \in Needs(c) : IsNullish(Measured(f)))

====
